---- MODULE Spec2Model ----
(***************************************************************************)
(* Model of the import_statistics fitness-tracker discovery component:     *)
(*   discovery.py          the in-memory registry _DISCOVERED_TRACKERS     *)
(*   fitness_component.py  the intake service discover_fitness_component   *)
(*   config_flow.py        the setup wizard ImportStatisticsConfigFlow     *)
(* Python dicts are TLA+ functions (records) whose DOMAIN is the key set,  *)
(* Python lists are sequences, identifiers are sequences of characters so  *)
(* that str.replace / str.isalnum and the f-string keys are computed.      *)
(***************************************************************************)
EXTENDS Integers, Sequences, FiniteSets, TLC

VARIABLES registry, states, config_entries, clock, flows, last

vars == <<registry, states, config_entries, clock, flows, last>>

-----------------------------------------------------------------------------
(* Bounds of the model *)

\* the number of successful announcements in a behaviour (the clock of the
\* model ticks once per stored tracker)
MaxClock == 2
MaxNameLen == 2
MaxEntities == 2

-----------------------------------------------------------------------------
(* Python values *)

None == [none |-> TRUE]

EmptyDict == <<>>

\* bool(d) of an Optional[dict]
Truthy(d) == d # None /\ DOMAIN d # {}

\* d.get(k, default)
DictGet(d, k, default) == IF k \in DOMAIN d THEN d[k] ELSE default

\* the characters identifiers are built from: a letter, a digit, the
\* underscore and the hyphen
Chars == {"a", "1", "_", "-"}

AlnumChars == {"a", "1"}

\* str.replace(old, ""), for a one-character old
RECURSIVE StrRemove(_, _)
StrRemove(s, old) ==
    IF s = <<>> THEN <<>>
    ELSE IF Head(s) = old THEN StrRemove(Tail(s), old)
    ELSE <<Head(s)>> \o StrRemove(Tail(s), old)

\* str.isalnum(): every character alphanumeric and at least one character
IsAlnum(s) == Len(s) > 0 /\ \A i \in 1..Len(s) : s[i] \in AlnumChars

\* name.replace("_", "").isalnum()
ValidName(s) == IsAlnum(StrRemove(s, "_"))

\* const.DOMAIN
DomainName == "import_statistics"

\* f"import_statistics.{component_name}_discovered"
StateEntityId(component_name) ==
    <<"import_statistics", ".">> \o component_name \o <<"_discovered">>

\* f"{DOMAIN}_{component_name}"
UniqueId(component_name) == <<DomainName, "_">> \o component_name

-----------------------------------------------------------------------------
(* discovery.py: the registry _DISCOVERED_TRACKERS and the status records *)

\* d[k] = v on a dict
DictPut(d, k, v) == [x \in DOMAIN d \cup {k} |-> IF x = k THEN v ELSE d[x]]

\* del d[k]
DictDel(d, k) == [x \in DOMAIN d \ {k} |-> d[x]]

\* the tracker_data dict built by store_discovered_tracker
tracker_data(component_name, vendor, device_info, entities, now) ==
    [component_name |-> component_name,
     vendor         |-> vendor,
     device_info    |-> device_info,
     entities       |-> entities,
     discovered_at  |-> now]

\* discovery_state with the entity count of a one-entity tracker
discovery_state_one_entity(data) ==
    [state      |-> "discovered",
     attributes |-> [component_name |-> data.component_name,
                     vendor         |-> data.vendor,
                     entity_count   |-> 1,
                     discovered_at  |-> data.discovered_at]]

\* the state object hass.states.async_set writes for a stored tracker
discovery_state(data) ==
    [state      |-> "discovered",
     attributes |-> [component_name |-> data.component_name,
                     vendor         |-> data.vendor,
                     entity_count   |-> Len(data.entities),
                     discovered_at  |-> data.discovered_at]]

\* a store that keeps the entities of the entry it replaces
store_registry_merging(reg, data) ==
    IF data.component_name \in DOMAIN reg
    THEN DictPut(reg, data.component_name,
                 [data EXCEPT !.entities =
                      reg[data.component_name].entities \o data.entities])
    ELSE DictPut(reg, data.component_name, data)

\* _DISCOVERED_TRACKERS[component_name] = tracker_data
store_registry(reg, data) == DictPut(reg, data.component_name, data)

\* a store that sets the state only when the tracker has none yet
store_states_if_absent(st, data) ==
    IF StateEntityId(data.component_name) \in DOMAIN st THEN st
    ELSE DictPut(st, StateEntityId(data.component_name), discovery_state(data))

\* hass.states.async_set(f"import_statistics.{component_name}_discovered", ...)
store_states(st, data) ==
    DictPut(st, StateEntityId(data.component_name), discovery_state(data))

\* a lookup that falls back to some stored tracker when the key is absent
get_any_discovered_tracker(reg, component_name) ==
    IF component_name \in DOMAIN reg THEN reg[component_name]
    ELSE IF DOMAIN reg # {} THEN reg[CHOOSE k \in DOMAIN reg : TRUE]
    ELSE None

\* _DISCOVERED_TRACKERS.get(component_name)
get_discovered_tracker(reg, component_name) ==
    IF component_name \in DOMAIN reg THEN reg[component_name] ELSE None

\* _DISCOVERED_TRACKERS.copy()
get_all_discovered_trackers(reg) == [k \in DOMAIN reg |-> reg[k]]

\* a remove that reports a deletion whether or not the key was there
remove_discovered_tracker_always_true(reg, component_name) ==
    IF component_name \in DOMAIN reg
    THEN [registry |-> DictDel(reg, component_name), result |-> TRUE]
    ELSE [registry |-> reg, result |-> TRUE]

\* remove_discovered_tracker that empties the registry when the key is there
remove_discovered_tracker_clears(reg, component_name) ==
    IF component_name \in DOMAIN reg
    THEN [registry |-> EmptyDict, result |-> TRUE]
    ELSE [registry |-> reg, result |-> FALSE]

\* remove_discovered_tracker: the registry afterwards and the returned bool
remove_discovered_tracker(reg, component_name) ==
    IF component_name \in DOMAIN reg
    THEN [registry |-> DictDel(reg, component_name), result |-> TRUE]
    ELSE [registry |-> reg, result |-> FALSE]

-----------------------------------------------------------------------------
(* fitness_component.py: discover_fitness_component *)

\* handle_error(message) raises: the message of the raised error
Error(msg) == [msg |-> msg]

ErrorAbout(msg, value) == [msg |-> msg, value |-> value]

\* the three checks on one entity of the loop, in the order of the code
EntityError(entity) ==
    IF "name" \notin DOMAIN entity
    THEN Error("entity name is required")
    ELSE IF "friendly_name" \notin DOMAIN entity
    THEN Error("entity friendly_name is required")
    ELSE IF ~ValidName(entity.name)
    THEN ErrorAbout("Invalid entity name", entity.name)
    ELSE None

\* for entity in entities: the first error raised, None when the loop ends
RECURSIVE EntitiesError(_)
EntitiesError(entities) ==
    IF entities = <<>> THEN None
    ELSE IF EntityError(Head(entities)) # None THEN EntityError(Head(entities))
    ELSE EntitiesError(Tail(entities))

\* not call.data.get("component_name"): the key is missing or the str is empty
NoComponentName(data) ==
    "component_name" \notin DOMAIN data \/ data.component_name = <<>>

\* not call.data.get("vendor")
NoVendor(data) == "vendor" \notin DOMAIN data \/ data.vendor = ""

\* not call.data.get("entities", [])
NoEntities(data) == "entities" \notin DOMAIN data \/ data.entities = <<>>

\* the checks with the format of component_name tested before the entity list
ValidationErrorNameFirst(data) ==
    IF NoComponentName(data)
    THEN Error("component_name is required")
    ELSE IF ~ValidName(data.component_name)
    THEN ErrorAbout("Invalid component_name", data.component_name)
    ELSE IF NoVendor(data)
    THEN Error("vendor is required")
    ELSE IF NoEntities(data)
    THEN Error("at least one entity must be specified")
    ELSE EntitiesError(data.entities)

\* the error discover_fitness_component raises on call.data, None if it
\* reaches store_discovered_tracker
ValidationError(data) ==
    IF NoComponentName(data)
    THEN Error("component_name is required")
    ELSE IF NoVendor(data)
    THEN Error("vendor is required")
    ELSE IF NoEntities(data)
    THEN Error("at least one entity must be specified")
    ELSE IF ~ValidName(data.component_name)
    THEN ErrorAbout("Invalid component_name", data.component_name)
    ELSE EntitiesError(data.entities)

\* the tracker stored for a call that passed validation
CallTracker(data, now) ==
    tracker_data(data.component_name, data.vendor,
                 DictGet(data, "device_info", EmptyDict), data.entities, now)

-----------------------------------------------------------------------------
(* config_flow.py: ImportStatisticsConfigFlow *)

\* the unique_id of a flow on which async_set_unique_id was never called
NoUniqueId == <<>>

\* ImportStatisticsConfigFlow.__init__, before the host calls a step
NewFlow ==
    [pc                  |-> "init",
     discovered_trackers |-> EmptyDict,
     selected_tracker    |-> None,
     unique_id           |-> NoUniqueId,
     result              |-> None]

\* async_abort whose result does not end the flow: the flow stays at its step
async_abort_keeps_step(flow, reason) ==
    [flow EXCEPT !.result = [type |-> "abort", reason |-> reason]]

\* self.async_abort(reason=...): the flow ends
async_abort(flow, reason) ==
    [flow EXCEPT !.pc = "done",
                 !.result = [type |-> "abort", reason |-> reason]]

\* self.async_create_entry(title=..., data=...): the flow ends
async_create_entry(flow, title, data) ==
    [flow EXCEPT !.pc = "done",
                 !.result = [type |-> "create_entry", title |-> title,
                             data |-> data]]

\* self.async_show_form(step_id=..., ...): the host calls that step next
async_show_form(flow, step_id, schema, placeholders) ==
    [flow EXCEPT !.pc = step_id,
                 !.result = [type |-> "form", step_id |-> step_id,
                             data_schema |-> schema,
                             description_placeholders |-> placeholders]]

\* the title the test of the confirm step expects
ConfirmTitleFitnessTracker(tracker) == <<"Fitness Tracker: ", tracker.vendor>>

\* the title of the entry created on confirmation
ConfirmTitle(tracker) == <<tracker.vendor, " - ">> \o tracker.component_name

\* ConfirmData with the entity list left out of the payload
ConfirmDataNoEntities(tracker) ==
    [component_name |-> tracker.component_name,
     vendor         |-> tracker.vendor,
     device_info    |-> tracker.device_info,
     entities       |-> <<>>]

\* the data of the entry created on confirmation
ConfirmData(tracker) ==
    [component_name |-> tracker.component_name,
     vendor         |-> tracker.vendor,
     device_info    |-> tracker.device_info,
     entities       |-> tracker.entities]

\* str(n) of a natural number, as its decimal digits
Digit(n) == <<"0", "1", "2", "3", "4", "5", "6", "7", "8", "9">>[n + 1]

RECURSIVE Str(_)
Str(n) == IF n < 10 THEN <<Digit(n)>> ELSE Str(n \div 10) \o <<Digit(n % 10)>>

\* sep.join(parts), the parts and the result being sequences of strings
RECURSIVE Join(_, _)
Join(sep, parts) ==
    IF parts = <<>> THEN <<>>
    ELSE IF Len(parts) = 1 THEN Head(parts)
    ELSE Head(parts) \o <<sep>> \o Join(sep, Tail(parts))

\* the prefix of a line of the entity list: two spaces, the bullet character
\* U+2022 (written * here, strings being ASCII) and a space
Bullet == "  * "

\* f"{Bullet}{entity.get('friendly_name', entity['name'])}"
EntityBullet(entity) ==
    IF "friendly_name" \in DOMAIN entity
    THEN <<Bullet, entity.friendly_name>>
    ELSE <<Bullet>> \o entity.name

\* the entities_list of the confirm form
EntitiesList(tracker) ==
    Join("\n", [i \in 1..Len(tracker.entities) |->
                    EntityBullet(tracker.entities[i])])

\* d.get(k) is truthy, for a value that is a string
TruthyStr(d, k) == k \in DOMAIN d /\ d[k] # ""

\* device_name with " by <manufacturer>" added whenever a manufacturer is given
DeviceNameAlwaysBy(tracker) ==
    LET device_info == DictGet(tracker, "device_info", EmptyDict)
        name1 == IF TruthyStr(device_info, "model")
                 THEN <<tracker.vendor, " ", device_info.model>>
                 ELSE <<tracker.vendor>>
    IN  IF TruthyStr(device_info, "manufacturer")
        THEN name1 \o <<" by ", device_info.manufacturer>>
        ELSE name1

\* the device_name of the confirm form
DeviceName(tracker) ==
    LET device_info == DictGet(tracker, "device_info", EmptyDict)
        name1 == IF TruthyStr(device_info, "model")
                 THEN <<tracker.vendor, " ", device_info.model>>
                 ELSE <<tracker.vendor>>
    IN  IF TruthyStr(device_info, "manufacturer")
           /\ device_info.manufacturer # tracker.vendor
        THEN name1 \o <<" by ", device_info.manufacturer>>
        ELSE name1

\* the description of the confirm form
Description(tracker) ==
    <<"Add ">> \o DeviceName(tracker) \o <<"?\n\n">>
    \o <<"Component name: ">> \o tracker.component_name \o <<"\n\n">>
    \o <<"This will create ">> \o Str(Len(tracker.entities))
    \o <<" entities:\n\n">>
    \o EntitiesList(tracker)

\* the form of the confirm step, built from the selected tracker
ConfirmForm(flow) ==
    async_show_form(flow, "confirm", {"add_device"},
                    [description |-> Description(flow.selected_tracker)])

\* async_step_confirm that reads the tracker again from the registry when it
\* is accepted, and creates the entry from what is stored now
async_step_confirm_rereads(flow, reg, user_input) ==
    LET name == flow.selected_tracker.component_name
        now  == IF name \in DOMAIN reg THEN reg[name]
                ELSE flow.selected_tracker
    IN  IF user_input # None
        THEN [registry |-> remove_discovered_tracker(reg, name).registry,
              flow     |-> async_create_entry(flow, ConfirmTitle(now),
                                              ConfirmData(now))]
        ELSE [registry |-> reg, flow |-> ConfirmForm(flow)]

\* async_step_confirm that shows its form again when the input declines
async_step_confirm_asks_again(flow, reg, user_input) ==
    IF user_input # None /\ user_input.add_device
    THEN [registry |-> remove_discovered_tracker(
                           reg, flow.selected_tracker.component_name).registry,
          flow     |-> async_create_entry(flow,
                           ConfirmTitle(flow.selected_tracker),
                           ConfirmData(flow.selected_tracker))]
    ELSE [registry |-> reg, flow |-> ConfirmForm(flow)]

\* async_step_confirm: the flow and the registry afterwards
async_step_confirm(flow, reg, user_input) ==
    IF user_input # None
    THEN [registry |-> remove_discovered_tracker(
                           reg, flow.selected_tracker.component_name).registry,
          flow     |-> async_create_entry(flow,
                           ConfirmTitle(flow.selected_tracker),
                           ConfirmData(flow.selected_tracker))]
    ELSE [registry |-> reg, flow |-> ConfirmForm(flow)]

\* the selection form of async_step_discovery and async_step_discovery_select
SelectForm(flow, step_id) ==
    async_show_form(flow, step_id, DOMAIN flow.discovered_trackers,
        [k \in DOMAIN flow.discovered_trackers |->
            <<flow.discovered_trackers[k].vendor, " (">> \o k \o <<")">>])

\* _abort_if_unique_id_configured that never finds an entry
UniqueIdNeverConfigured(cfg, unique_id) == FALSE

\* self._abort_if_unique_id_configured(): an entry of the host has the id
UniqueIdConfigured(cfg, unique_id) == unique_id \in cfg

\* SelectTracker looking the name up in the snapshot the flow holds
SelectTrackerInSnapshot(flow, reg, cfg, component_name) ==
    LET sel == get_discovered_tracker(flow.discovered_trackers, component_name)
        f1  == [flow EXCEPT !.selected_tracker = sel]
        f2  == [f1 EXCEPT !.unique_id = UniqueId(component_name)]
    IN  IF sel = None
        THEN async_abort(f1, "tracker_not_found")
        ELSE IF UniqueIdConfigured(cfg, f2.unique_id)
        THEN async_abort(f2, "already_configured")
        ELSE async_step_confirm(f2, reg, None).flow

\* SelectTracker that takes some stored tracker when the named one is absent
SelectTrackerAnyIfMissing(flow, reg, cfg, component_name) ==
    LET sel == get_any_discovered_tracker(reg, component_name)
        f1  == [flow EXCEPT !.selected_tracker = sel]
        f2  == [f1 EXCEPT !.unique_id = UniqueId(component_name)]
    IN  IF sel = None
        THEN async_abort(f1, "tracker_not_found")
        ELSE IF UniqueIdConfigured(cfg, f2.unique_id)
        THEN async_abort(f2, "already_configured")
        ELSE async_step_confirm(f2, reg, None).flow

\* lookup of the named tracker, unique id check, then the confirm form
\* (the same statements in async_step_discovery and async_step_discovery_select)
SelectTracker(flow, reg, cfg, component_name) ==
    LET sel == get_discovered_tracker(reg, component_name)
        f1  == [flow EXCEPT !.selected_tracker = sel]
        f2  == [f1 EXCEPT !.unique_id = UniqueId(component_name)]
    IN  IF sel = None
        THEN async_abort(f1, "tracker_not_found")
        ELSE IF UniqueIdConfigured(cfg, f2.unique_id)
        THEN async_abort(f2, "already_configured")
        ELSE async_step_confirm(f2, reg, None).flow

\* async_step_discovery
async_step_discovery(flow, reg, cfg, discovery_info) ==
    LET f1 == [flow EXCEPT !.discovered_trackers =
                               get_all_discovered_trackers(reg)]
    IN  IF DOMAIN f1.discovered_trackers = {}
        THEN async_abort(f1, "no_discovered_trackers")
        ELSE IF Truthy(discovery_info) /\ "component_name" \in DOMAIN discovery_info
        THEN SelectTracker(f1, reg, cfg, discovery_info.component_name)
        ELSE SelectForm(f1, "discovery")

\* async_step_discovery_select
async_step_discovery_select(flow, reg, cfg, user_input) ==
    IF user_input # None
    THEN SelectTracker(flow, reg, cfg, user_input.component_name)
    ELSE LET f1 == [flow EXCEPT !.discovered_trackers =
                                    get_all_discovered_trackers(reg)]
         IN  IF DOMAIN f1.discovered_trackers = {}
             THEN async_abort(f1, "no_discovered_trackers")
             ELSE SelectForm(f1, "discovery_select")

\* async_step_user testing `if user_input:` in place of `is not None`
async_step_user_if_truthy(flow, user_input) ==
    IF Truthy(user_input)
    THEN async_create_entry(flow, <<"Import Statistics">>, EmptyDict)
    ELSE async_show_form(flow, "user", {}, EmptyDict)

\* async_step_user
async_step_user(flow, user_input) ==
    IF user_input # None
    THEN async_create_entry(flow, <<"Import Statistics">>, EmptyDict)
    ELSE async_show_form(flow, "user", {}, EmptyDict)

\* async_step_import
async_step_import(flow, import_data) == async_step_user(flow, import_data)

-----------------------------------------------------------------------------
(* The inputs of the model *)

\* the wizard sessions: two flows of the host, which may interleave
Flows == {"flow1", "flow2"}

TrackerA == <<"a">>

TrackerB == <<"a", "_">>

\* an identifier no call announces
TrackerC == <<"a", "1">>

Steps == [name |-> <<"a">>, friendly_name |-> "Steps"]

HeartRate == [name |-> <<"a", "_">>, friendly_name |-> "Heart Rate"]

\* the service calls of the main specification: two descriptions of
\* TrackerA, one of TrackerB, and one call failing each validation check
\* (name, vendor, entity list, name format, entity)
ServiceCalls ==
    { [component_name |-> TrackerA, vendor |-> "Vendor 1",
       device_info |-> [model |-> "T1"], entities |-> <<Steps>>],
      [component_name |-> TrackerA, vendor |-> "Vendor 2",
       device_info |-> [model |-> "T2", manufacturer |-> "Corp"],
       entities |-> <<HeartRate, Steps>>],
      [component_name |-> TrackerB, vendor |-> "Vendor 1",
       entities |-> <<HeartRate>>],
      [vendor |-> "Vendor 1", entities |-> <<Steps>>],
      [component_name |-> TrackerA],
      [component_name |-> <<"a", "-">>, vendor |-> "Vendor 1",
       entities |-> <<>>],
      [component_name |-> <<"a", "-">>, vendor |-> "Vendor 1",
       entities |-> <<Steps>>],
      [component_name |-> TrackerB, vendor |-> "Vendor 2",
       entities |-> <<Steps, [name |-> <<"a", "-">>,
                               friendly_name |-> "Heart Rate"]>>] }

\* what the host passes to async_step_discovery when it starts a flow
DiscoveryInfos ==
    {None, EmptyDict, [source |-> "discovery"]}
    \cup {[component_name |-> n] : n \in {TrackerA, TrackerB, TrackerC}}

\* what the user can submit on a selection form: a key of the form's schema
Choices(flow) == {[component_name |-> n] : n \in DOMAIN flow.discovered_trackers}

\* what the user can submit on the confirm form
ConfirmInputs == {[add_device |-> TRUE], [add_device |-> FALSE]}

ImportData == {EmptyDict, [some |-> "data"]}

-----------------------------------------------------------------------------
(* The state machine *)

Init ==
    /\ registry = EmptyDict
    /\ states = EmptyDict
    /\ config_entries = {}
    /\ clock = 0
    /\ flows = [f \in Flows |-> NewFlow]
    /\ last = [op |-> "init"]

\* the host persists a created entry under the unique id of its flow
PersistEntry(cfg, flow) ==
    IF flow.result.type = "create_entry" /\ flow.unique_id # NoUniqueId
    THEN cfg \cup {flow.unique_id}
    ELSE cfg

\* discover_fitness_component with the store moved before the format and
\* entity checks: a call that gives the three keys is stored, then checked
DiscoverFitnessComponentStoreFirst(data, now) ==
    /\ now = clock + 1
    /\ LET err == ValidationError(data) IN
       IF err # None
          /\ ~({"component_name", "vendor", "entities"} \subseteq DOMAIN data)
       THEN /\ UNCHANGED <<registry, states, clock>>
            /\ last' = [op |-> "discover_fitness_component", data |-> data,
                        error |-> err]
       ELSE /\ now <= MaxClock
            /\ registry' = store_registry(registry, CallTracker(data, now))
            /\ states' = store_states(states, CallTracker(data, now))
            /\ clock' = now
            /\ last' = [op |-> "discover_fitness_component", data |-> data,
                        error |-> err]
    /\ UNCHANGED <<config_entries, flows>>

\* discover_fitness_component when get_all_discovered_trackers hands out
\* _DISCOVERED_TRACKERS itself in place of a copy: the dict a flow holds as
\* its snapshot is the registry, and shows the store
DiscoverFitnessComponentSharedDict(data, now) ==
    /\ now = clock + 1
    /\ LET err == ValidationError(data) IN
       IF err # None
       THEN /\ UNCHANGED <<registry, states, clock, flows>>
            /\ last' = [op |-> "discover_fitness_component", data |-> data,
                        error |-> err]
       ELSE /\ now <= MaxClock
            /\ registry' = store_registry(registry, CallTracker(data, now))
            /\ states' = store_states(states, CallTracker(data, now))
            /\ clock' = now
            /\ flows' = [f \in Flows |->
                            IF DOMAIN flows[f].discovered_trackers = {}
                            THEN flows[f]
                            ELSE [flows[f] EXCEPT !.discovered_trackers =
                                                      registry']]
            /\ last' = [op |-> "discover_fitness_component", data |-> data,
                        error |-> None]
    /\ UNCHANGED config_entries

\* the service call: discover_fitness_component(hass, call), at time now
DiscoverFitnessComponent(data, now) ==
    /\ now = clock + 1
    /\ LET err == ValidationError(data) IN
       IF err # None
       THEN /\ UNCHANGED <<registry, states, clock>>
            /\ last' = [op |-> "discover_fitness_component", data |-> data,
                        error |-> err]
       ELSE /\ now <= MaxClock
            /\ registry' = store_registry(registry, CallTracker(data, now))
            /\ states' = store_states(states, CallTracker(data, now))
            /\ clock' = now
            /\ last' = [op |-> "discover_fitness_component", data |-> data,
                        error |-> None]
    /\ UNCHANGED <<config_entries, flows>>

Announce == \E data \in ServiceCalls, now \in 1..(MaxClock + 1) :
                DiscoverFitnessComponent(data, now)

\* the host calls async_step_user: to start a flow, or with the form's input
StepUser(f, user_input) ==
    /\ \/ flows[f].pc = "init" /\ user_input = None
       \/ flows[f].pc = "user" /\ user_input = EmptyDict
    /\ flows' = [flows EXCEPT ![f] = async_step_user(flows[f], user_input)]
    /\ config_entries' = PersistEntry(config_entries, flows'[f])
    /\ last' = [op |-> "async_step_user", flow |-> f, input |-> user_input]
    /\ UNCHANGED <<registry, states, clock>>

\* the host starts a flow from configuration.yaml
StepImport(f, import_data) ==
    /\ flows[f].pc = "init"
    /\ flows' = [flows EXCEPT ![f] = async_step_import(flows[f], import_data)]
    /\ config_entries' = PersistEntry(config_entries, flows'[f])
    /\ last' = [op |-> "async_step_import", flow |-> f, input |-> import_data]
    /\ UNCHANGED <<registry, states, clock>>

\* the host calls async_step_discovery: to start a flow (with or without a
\* hint), or with the choice made on the form of step "discovery"
StepDiscovery(f, discovery_info) ==
    /\ \/ flows[f].pc = "init" /\ discovery_info \in DiscoveryInfos
       \/ flows[f].pc = "discovery" /\ discovery_info \in Choices(flows[f])
    /\ flows' = [flows EXCEPT ![f] =
                    async_step_discovery(flows[f], registry, config_entries,
                                         discovery_info)]
    /\ last' = [op |-> "async_step_discovery", flow |-> f,
                input |-> discovery_info]
    /\ UNCHANGED <<registry, states, clock, config_entries>>

\* the host calls async_step_discovery_select: to start browsing, or with
\* the choice made on the form of step "discovery_select"
StepDiscoverySelect(f, user_input) ==
    /\ \/ flows[f].pc = "init" /\ user_input = None
       \/ flows[f].pc = "discovery_select" /\ user_input \in Choices(flows[f])
    /\ flows' = [flows EXCEPT ![f] =
                    async_step_discovery_select(flows[f], registry,
                                                config_entries, user_input)]
    /\ last' = [op |-> "async_step_discovery_select", flow |-> f,
                input |-> user_input]
    /\ UNCHANGED <<registry, states, clock, config_entries>>

\* the host calls async_step_confirm with the input of the confirm form
StepConfirm(f, user_input) ==
    /\ flows[f].pc = "confirm"
    /\ user_input \in ConfirmInputs
    /\ LET r == async_step_confirm(flows[f], registry, user_input) IN
       /\ flows' = [flows EXCEPT ![f] = r.flow]
       /\ registry' = r.registry
       /\ config_entries' = PersistEntry(config_entries, r.flow)
    /\ last' = [op |-> "async_step_confirm", flow |-> f, input |-> user_input]
    /\ UNCHANGED <<states, clock>>

User == \E f \in Flows, i \in {None, EmptyDict} : StepUser(f, i)

Import == \E f \in Flows, d \in ImportData : StepImport(f, d)

Discovery == \E f \in Flows :
    \E i \in DiscoveryInfos \cup Choices(flows[f]) : StepDiscovery(f, i)

DiscoverySelect == \E f \in Flows :
    \E i \in {None} \cup Choices(flows[f]) : StepDiscoverySelect(f, i)

Confirm == \E f \in Flows : \/ StepConfirm(f, [add_device |-> TRUE])
                            \/ StepConfirm(f, [add_device |-> FALSE])

Next == Announce \/ User \/ Import \/ Discovery \/ DiscoverySelect \/ Confirm

Spec == Init /\ [][Next]_vars

-----------------------------------------------------------------------------
(* The registry functions of discovery.py called directly, as its tests do *)

\* the arguments of the direct calls of store_discovered_tracker
StoreArgs == {data \in ServiceCalls : ValidationError(data) = None}

RegistryKeys == {TrackerA, TrackerB, TrackerC}

\* store_discovered_tracker(hass, component_name, vendor, device_info, entities)
StoreDiscoveredTracker(data, now) ==
    /\ now = clock + 1
    /\ now <= MaxClock
    /\ registry' = store_registry(registry, CallTracker(data, now))
    /\ states' = store_states(states, CallTracker(data, now))
    /\ clock' = now
    /\ last' = [op |-> "store_discovered_tracker", data |-> data]
    /\ UNCHANGED <<config_entries, flows>>

\* get_discovered_tracker(component_name)
GetDiscoveredTracker(component_name) ==
    /\ last' = [op |-> "get_discovered_tracker",
                component_name |-> component_name,
                ret |-> get_discovered_tracker(registry, component_name)]
    /\ UNCHANGED <<registry, states, clock, config_entries, flows>>

\* get_all_discovered_trackers()
GetAllDiscoveredTrackers ==
    /\ last' = [op |-> "get_all_discovered_trackers",
                ret |-> get_all_discovered_trackers(registry)]
    /\ UNCHANGED <<registry, states, clock, config_entries, flows>>

\* remove_discovered_tracker(component_name)
RemoveDiscoveredTracker(component_name) ==
    /\ registry' = remove_discovered_tracker(registry, component_name).registry
    /\ last' = [op |-> "remove_discovered_tracker",
                component_name |-> component_name,
                ret |-> remove_discovered_tracker(registry, component_name).result]
    /\ UNCHANGED <<states, clock, config_entries, flows>>

Store == \E data \in StoreArgs, now \in 1..MaxClock :
             StoreDiscoveredTracker(data, now)

Get == \E k \in RegistryKeys : GetDiscoveredTracker(k)

Remove == \E k \in RegistryKeys : RemoveDiscoveredTracker(k)

NextRegistry == Store \/ Get \/ GetAllDiscoveredTrackers \/ Remove

SpecRegistry == Init /\ [][NextRegistry]_vars

-----------------------------------------------------------------------------
(* discover_fitness_component on every call the bounds allow, called once *)

\* the strings of at most n characters
RECURSIVE StringsUpTo(_)
StringsUpTo(n) ==
    IF n = 0 THEN {<<>>}
    ELSE StringsUpTo(n - 1)
         \cup {Append(s, c) : s \in {t \in StringsUpTo(n - 1) : Len(t) = n - 1},
                              c \in Chars}

\* entity dicts: well-formed, a key missing, both missing, ill-formed names
EntityInputs ==
    { Steps,
      [friendly_name |-> "Steps"],
      [name |-> <<"a", "-">>, friendly_name |-> "Steps"],
      [name |-> <<"-">>],
      [name |-> <<"_">>, friendly_name |-> "Steps"],
      EmptyDict }

\* the lists of at most n entities
RECURSIVE EntityLists(_)
EntityLists(n) ==
    IF n = 0 THEN {<<>>}
    ELSE EntityLists(n - 1)
         \cup {Append(l, e) : l \in {t \in EntityLists(n - 1) : Len(t) = n - 1},
                              e \in EntityInputs}

\* a call.data dict: each of the three keys given (a one-element set) or
\* left out (the empty set)
CallData(names, vendors, entities) ==
    [k \in (IF names = {} THEN {} ELSE {"component_name"})
           \cup (IF vendors = {} THEN {} ELSE {"vendor"})
           \cup (IF entities = {} THEN {} ELSE {"entities"}) |->
        IF k = "component_name" THEN CHOOSE n \in names : TRUE
        ELSE IF k = "vendor" THEN CHOOSE v \in vendors : TRUE
        ELSE CHOOSE e \in entities : TRUE]

Optional(S) == {{}} \cup {{x} : x \in S}

IntakeCalls ==
    {CallData(n, v, e) : n \in Optional(StringsUpTo(MaxNameLen)),
                         v \in Optional({"", "Vendor 1"}),
                         e \in Optional(EntityLists(MaxEntities))}

IntakeOnce ==
    /\ last.op = "init"
    /\ \E data \in IntakeCalls : DiscoverFitnessComponent(data, clock + 1)

SpecIntake == Init /\ [][IntakeOnce]_vars

-----------------------------------------------------------------------------
(* One tracker from announcement to sensors: every device description the
   bounds allow is announced, selected by its name, accepted and set up *)

\* create_device_info(component_name, vendor, device_info)
create_device_info(component_name, vendor, device_info) ==
    [name         |-> vendor,
     identifiers  |-> {<<DomainName, component_name>>},
     manufacturer |-> DictGet(device_info, "manufacturer", vendor),
     model        |-> DictGet(device_info, "model", None),
     sw_version   |-> DictGet(device_info, "sw_version", None),
     hw_version   |-> DictGet(device_info, "hw_version", None),
     entry_type   |-> "service"]

\* FitnessTrackerSensor whose unique id is the entity name alone
FitnessTrackerSensorNameOnly(component_name, entity_config, device_info) ==
    [component_name  |-> component_name,
     entity_config   |-> entity_config,
     device_info     |-> device_info,
     unique_id       |-> entity_config.name,
     name            |-> DictGet(entity_config, "friendly_name",
                                 entity_config.name),
     native_value    |-> None,
     available       |-> FALSE]

\* FitnessTrackerSensor.__init__
FitnessTrackerSensor(component_name, entity_config, device_info) ==
    [component_name  |-> component_name,
     entity_config   |-> entity_config,
     device_info     |-> device_info,
     unique_id       |-> component_name \o <<"_">> \o entity_config.name,
     name            |-> DictGet(entity_config, "friendly_name",
                                 entity_config.name),
     native_value    |-> None,
     available       |-> FALSE]

\* async_setup_entry: the list handed to async_add_entities
async_setup_entry(data) ==
    LET component_name   == DictGet(data, "component_name", None)
        vendor           == DictGet(data, "vendor", None)
        device_info_data == DictGet(data, "device_info", EmptyDict)
        entities_config  == DictGet(data, "entities", <<>>)
        device_info      == create_device_info(component_name, vendor,
                                               device_info_data)
    IN  [i \in 1..Len(entities_config) |->
            FitnessTrackerSensor(component_name, entities_config[i],
                                 device_info)]

\* the device_info dicts of the announcements: model and manufacturer each
\* left out, empty or given, the manufacturer also equal to a vendor
DeviceInfos ==
    {[k \in (IF m = {} THEN {} ELSE {"model"})
            \cup (IF b = {} THEN {} ELSE {"manufacturer"}) |->
         IF k = "model" THEN CHOOSE x \in m : TRUE ELSE CHOOSE x \in b : TRUE] :
     m \in Optional({"", "T1"}), b \in Optional({"", "Corp", "Vendor 1"})}

\* the non-empty lists of at most n of the two well-formed entities
RECURSIVE ValidEntityLists(_)
ValidEntityLists(n) ==
    IF n = 0 THEN {}
    ELSE ValidEntityLists(n - 1)
         \cup {<<e>> : e \in {Steps, HeartRate}}
         \cup {Append(l, e) : l \in {t \in ValidEntityLists(n - 1) :
                                          Len(t) = n - 1},
                              e \in {Steps, HeartRate}}

\* the announcements of TrackerA
EntryCalls ==
    {[component_name |-> TrackerA, vendor |-> v, device_info |-> d,
      entities |-> e] :
        v \in {"Vendor 1", "Corp"}, d \in DeviceInfos,
        e \in ValidEntityLists(MaxEntities)}
    \cup {[component_name |-> TrackerA, vendor |-> v, entities |-> <<Steps>>] :
             v \in {"Vendor 1", "Corp"}}

\* the host sets up the sensor platform for the entry a flow created
AsyncSetupEntry(f) ==
    /\ flows[f].result # None
    /\ flows[f].result.type = "create_entry"
    /\ last' = [op |-> "async_setup_entry", flow |-> f,
                entities |-> async_setup_entry(flows[f].result.data)]
    /\ UNCHANGED <<registry, states, clock, config_entries, flows>>

AnnounceEntry ==
    /\ last.op = "init"
    /\ \E data \in EntryCalls : DiscoverFitnessComponent(data, clock + 1)

SelectEntry == \E f \in Flows : StepDiscovery(f, [component_name |-> TrackerA])

AcceptEntry == \E f \in Flows : StepConfirm(f, [add_device |-> TRUE])

ImportEntry == \E f \in Flows : StepImport(f, EmptyDict)

SetupEntry == \E f \in Flows : AsyncSetupEntry(f)

NextEntry ==
    AnnounceEntry \/ SelectEntry \/ AcceptEntry \/ ImportEntry \/ SetupEntry

SpecEntry == Init /\ [][NextEntry]_vars

-----------------------------------------------------------------------------
(* Properties *)

\* the step taken is flow f's call of async_step_confirm with this answer
ConfirmStepOf(f, add_device) ==
    /\ flows[f].pc = "confirm"
    /\ last'.op = "async_step_confirm"
    /\ last'.flow = f
    /\ last'.input.add_device = add_device

\* the result of flow f is a created entry for component component_name
CreatedFor(f, component_name) ==
    /\ flows[f].result # None
    /\ flows[f].result.type = "create_entry"
    /\ "component_name" \in DOMAIN flows[f].result.data
    /\ flows[f].result.data.component_name = component_name

\* C1: an accepting input in the confirm step ends the flow with a created
\* entry whose data has exactly the component_name, vendor, device_info and
\* entities of the selected tracker, and afterwards the registry has no entry
\* under that component_name; with one announcement and the other flow not
\* started the registry goes from one entry to none.
C1_AcceptCreatesEntry ==
    [][\A f \in Flows : ConfirmStepOf(f, TRUE) =>
        LET sel == flows[f].selected_tracker
            res == flows'[f].result
        IN  /\ flows'[f].pc = "done"
            /\ res.type = "create_entry"
            /\ DOMAIN res.data =
                   {"component_name", "vendor", "device_info", "entities"}
            /\ res.data.component_name = sel.component_name
            /\ res.data.vendor = sel.vendor
            /\ res.data.device_info = sel.device_info
            /\ res.data.entities = sel.entities
            /\ sel.component_name \notin DOMAIN registry'
            /\ (clock = 1 /\ \A g \in Flows \ {f} : flows[g] = NewFlow)
                   => /\ Cardinality(DOMAIN registry) = 1
                      /\ Cardinality(DOMAIN registry') = 0
    ]_vars

\* C1 witness: a flow accepted TrackerA in its second description and ended
\* with the created entry, TrackerA gone from the registry
C1_Witness ==
    /\ last.op = "async_step_confirm"
    /\ last.input.add_device = TRUE
    /\ CreatedFor(last.flow, TrackerA)
    /\ Len(flows[last.flow].result.data.entities) = 2
    /\ TrackerA \notin DOMAIN registry

\* C2: a declining input (add_device false) in the confirm step ends the flow
\* aborted with reason not_confirmed and leaves the registry as it was.
C2_DeclineAborts ==
    [][\A f \in Flows : ConfirmStepOf(f, FALSE) =>
        /\ flows'[f].pc = "done"
        /\ flows'[f].result = [type |-> "abort", reason |-> "not_confirmed"]
        /\ registry' = registry
    ]_vars

\* C3: at most one flow ever ends with a created entry for a given
\* component_name.
C3_OneEntryPerComponent ==
    \A n \in {TrackerA, TrackerB} :
        Cardinality({f \in Flows : CreatedFor(f, n)}) <= 1

\* the step taken is flow f's call of one of the two selection steps with an
\* input that names component_name
SelectStepOf(f, component_name) ==
    /\ flows[f].pc \in {"init", "discovery", "discovery_select"}
    /\ last'.op \in {"async_step_discovery", "async_step_discovery_select"}
    /\ last'.flow = f
    /\ Truthy(last'.input)
    /\ "component_name" \in DOMAIN last'.input
    /\ last'.input.component_name = component_name

Aborted(reason) == [type |-> "abort", reason |-> reason]

\* C4: a selection step naming X, with X in the registry and the unique key
\* "import_statistics_<X>" already configured in the host, ends the flow
\* aborted with reason already_configured, does not reach the confirm step
\* and leaves the registry as it was; a selection step ends with
\* already_configured only if the named tracker was found.
C4_AlreadyConfiguredAborts ==
    [][\A f \in Flows : \A x \in {TrackerA, TrackerB, TrackerC} :
        SelectStepOf(f, x) =>
            /\ (x \in DOMAIN registry
                /\ (<<"import_statistics", "_">> \o x) \in config_entries)
               => /\ flows'[f].result = Aborted("already_configured")
                  /\ flows'[f].pc = "done"
                  /\ registry' = registry
            /\ flows'[f].result = Aborted("already_configured")
               => x \in DOMAIN registry
    ]_vars

\* C4 witness: TrackerA was confirmed by one flow, announced again, and the
\* other flow's selection of it ended with already_configured
C4_Witness ==
    /\ last.op \in {"async_step_discovery", "async_step_discovery_select"}
    /\ last.input = [component_name |-> TrackerA]
    /\ flows[last.flow].result = Aborted("already_configured")
    /\ TrackerA \in DOMAIN registry
    /\ \E g \in Flows \ {last.flow} : CreatedFor(g, TrackerA)

\* C5: a selection step naming an identifier that is not a key of the
\* non-empty registry ends the flow aborted with reason tracker_not_found and
\* leaves the registry as it was.
C5_UnknownTrackerAborts ==
    [][\A f \in Flows : \A x \in {TrackerA, TrackerB, TrackerC} :
        (SelectStepOf(f, x) /\ DOMAIN registry # {} /\ x \notin DOMAIN registry)
        => /\ flows'[f].result = Aborted("tracker_not_found")
           /\ flows'[f].pc = "done"
           /\ registry' = registry
    ]_vars

\* C5 witness: a hint named TrackerC while only other trackers were stored
C5_Witness ==
    /\ last.op = "async_step_discovery"
    /\ last.input = [component_name |-> TrackerC]
    /\ DOMAIN registry # {}
    /\ flows[last.flow].result = Aborted("tracker_not_found")

\* C6: every call of a selection step (async_step_discovery or
\* async_step_discovery_select, whatever its input) made while the registry
\* is empty ends the flow aborted with reason no_discovered_trackers.
C6_EmptyRegistryAborts ==
    [][\A f \in Flows :
        (/\ last'.op \in {"async_step_discovery", "async_step_discovery_select"}
         /\ last'.flow = f
         /\ flows[f].pc \in {"init", "discovery", "discovery_select"}
         /\ DOMAIN registry = {})
        => /\ flows'[f].result = Aborted("no_discovered_trackers")
           /\ flows'[f].pc = "done"
    ]_vars

\* the last operation was a discover_fitness_component call that passed
\* validation
Announced ==
    /\ last.op = "discover_fitness_component"
    /\ last.error = None

\* C7: right after an announcement that passed validation the registry has,
\* under the announced component_name, an entry with the announced
\* component_name, vendor, device_info and entities, and the state
\* "import_statistics.<component_name>_discovered" has the same component_name
\* and vendor and an entity_count equal to the length of the announced list.
C7_AnnounceStores ==
    Announced =>
        LET d     == last.data
            entry == get_discovered_tracker(registry, d.component_name)
            key   == <<"import_statistics", ".">> \o d.component_name
                         \o <<"_discovered">>
        IN  /\ entry # None
            /\ entry.component_name = d.component_name
            /\ entry.vendor = d.vendor
            /\ entry.device_info =
                   (IF "device_info" \in DOMAIN d THEN d.device_info ELSE EmptyDict)
            /\ entry.entities = d.entities
            /\ key \in DOMAIN states
            /\ states[key].attributes.component_name = d.component_name
            /\ states[key].attributes.vendor = d.vendor
            /\ states[key].attributes.entity_count = Len(d.entities)

\* C7 witness: TrackerA was just announced with two entities
C7_Witness ==
    /\ Announced
    /\ last.data.component_name = TrackerA
    /\ Len(last.data.entities) = 2
    /\ TrackerA \in DOMAIN registry

\* C8: announcing a component_name that is already a key of the registry
\* leaves under that key exactly the announced vendor, device_info and
\* entities (nothing of the old entry) and does not change the number of
\* entries.
C8_ReannounceOverwrites ==
    [][(Announced' /\ clock' # clock
        /\ last'.data.component_name \in DOMAIN registry)
       => LET d     == last'.data
              entry == registry'[d.component_name]
          IN  /\ DOMAIN entry = {"component_name", "vendor", "device_info",
                                 "entities", "discovered_at"}
              /\ entry.component_name = d.component_name
              /\ entry.vendor = d.vendor
              /\ entry.device_info =
                     (IF "device_info" \in DOMAIN d THEN d.device_info
                      ELSE EmptyDict)
              /\ entry.entities = d.entities
              /\ Cardinality(DOMAIN registry') = Cardinality(DOMAIN registry)
    ]_vars

\* C8 witness: two announcements were made and no flow has started, the
\* registry has the single entry TrackerA in its second description
C8_Witness ==
    /\ Announced
    /\ clock = 2
    /\ \A f \in Flows : flows[f] = NewFlow
    /\ DOMAIN registry = {TrackerA}
    /\ registry[TrackerA].vendor = "Vendor 2"
    /\ registry[TrackerA].discovered_at = 2
    /\ states[StateEntityId(TrackerA)].attributes.discovered_at = 2

\* C9: remove on an absent identifier returns false and leaves the registry
\* as it was; on a present identifier it returns true, and afterwards get
\* returns None for it and a second remove returns false.
C9_Remove ==
    [][last'.op = "remove_discovered_tracker" =>
        LET id == last'.component_name IN
        /\ id \notin DOMAIN registry
           => last'.ret = FALSE /\ registry' = registry
        /\ id \in DOMAIN registry
           => /\ last'.ret = TRUE
              /\ get_discovered_tracker(registry', id) = None
              /\ id \notin DOMAIN registry'
              /\ remove_discovered_tracker(registry', id).result = FALSE
    ]_vars

\* C9 witness: TrackerA was removed with result true while TrackerB stays
C9_Witness ==
    /\ last.op = "remove_discovered_tracker"
    /\ last.component_name = TrackerA
    /\ last.ret = TRUE
    /\ DOMAIN registry = {TrackerB}

\* the message of the error a call reported, "" when it reported none
ReportedMsg(error) == IF error = None THEN "" ELSE error.msg

\* the five checks of the intake, each on its own
FailsName(d) == "component_name" \notin DOMAIN d \/ Len(d.component_name) = 0

FailsVendor(d) == "vendor" \notin DOMAIN d \/ d.vendor = ""

FailsEntityList(d) == "entities" \notin DOMAIN d \/ Len(d.entities) = 0

FailsNameFormat(d) == ~ValidName(d.component_name)

FailsEntities(d) ==
    \E i \in 1..Len(d.entities) :
        \/ "name" \notin DOMAIN d.entities[i]
        \/ "friendly_name" \notin DOMAIN d.entities[i]
        \/ ~ValidName(d.entities[i].name)

EntityMessages ==
    {"entity name is required", "entity friendly_name is required",
     "Invalid entity name"}

\* C10: the error a call reports is that of the first failing check in the
\* order name given, vendor given, entity list given and non-empty, name
\* format, entities; a call that fails none reports no error.
C10_ValidationOrder ==
    last.op = "discover_fitness_component" =>
        LET d   == last.data
            msg == ReportedMsg(last.error)
        IN  IF FailsName(d) THEN msg = "component_name is required"
            ELSE IF FailsVendor(d) THEN msg = "vendor is required"
            ELSE IF FailsEntityList(d)
            THEN msg = "at least one entity must be specified"
            ELSE IF FailsNameFormat(d) THEN msg = "Invalid component_name"
            ELSE IF FailsEntities(d) THEN msg \in EntityMessages
            ELSE msg = ""

\* C10 witness: a call with an ill-formed component_name, a vendor and an
\* empty entity list reported the entity list error
C10_Witness ==
    /\ last.op = "discover_fitness_component"
    /\ last.data = [component_name |-> <<"a", "-">>, vendor |-> "Vendor 1",
                    entities |-> <<>>]
    /\ ReportedMsg(last.error) = "at least one entity must be specified"

\* the identifier matches ^[A-Za-z0-9_]+$
MatchesIdentifierPattern(s) ==
    /\ Len(s) > 0
    /\ \A i \in 1..Len(s) : s[i] \in AlnumChars \cup {"_"}

\* the call reached the format check of the component_name: the name is
\* given and non-empty, the vendor is given, the entity list is non-empty
ReachesNameFormat(d) == ~FailsName(d) /\ ~FailsVendor(d) /\ ~FailsEntityList(d)

\* C11: a call with a non-empty component_name over letters, digits,
\* underscore and hyphen that reaches the format check passes it exactly
\* when the name matches ^[A-Za-z0-9_]+$ (names made only of underscores
\* included), and reports "Invalid component_name" exactly when it does not.
C11_NameFormat ==
    (last.op = "discover_fitness_component" /\ ReachesNameFormat(last.data))
    => (ReportedMsg(last.error) = "Invalid component_name"
        <=> ~MatchesIdentifierPattern(last.data.component_name))

\* C12: a call of discover_fitness_component that reports a validation error
\* leaves the registry (keys and entries) and the published states exactly
\* as they were before the call.
C12_FailedAnnounceNoEffect ==
    [][(last'.op = "discover_fitness_component" /\ last'.error # None)
       => /\ registry' = registry
          /\ states' = states
    ]_vars

\* C12 witness: with both trackers stored, a call whose second entity has an
\* ill-formed name was rejected, and the registry and the states still hold
\* what the two successful calls stored
C12_Witness ==
    /\ last.op = "discover_fitness_component"
    /\ ReportedMsg(last.error) = "Invalid entity name"
    /\ last.data.component_name = TrackerB
    /\ DOMAIN registry = {TrackerA, TrackerB}
    /\ registry[TrackerB].vendor = "Vendor 1"
    /\ DOMAIN states = {StateEntityId(TrackerA), StateEntityId(TrackerB)}
    /\ states[StateEntityId(TrackerB)].attributes.entity_count = 1

\* C13: every entry of the registry has a non-empty entity list, and every
\* entity name in it is non-empty, made of letters, digits and underscores
\* only, and carried by no other entity of the same entry.
C13_RegistryEntitiesWellFormed ==
    \A k \in DOMAIN registry :
        LET entities == registry[k].entities IN
        /\ Len(entities) > 0
        /\ \A i \in 1..Len(entities) :
            /\ "name" \in DOMAIN entities[i]
            /\ MatchesIdentifierPattern(entities[i].name)
            /\ \A j \in 1..Len(entities) :
                   entities[j].name = entities[i].name => j = i

\* C14: a call of the user step without input returns the form of step
\* "user"; a call of the user step with an input, and a call of the import
\* step with any data, ends the flow with a created entry titled
\* "Import Statistics" whose data is empty; none of these calls changes the
\* registry or takes anything from it into the flow.
C14_ManualPath ==
    [][\A f \in Flows :
        (/\ last'.op \in {"async_step_user", "async_step_import"}
         /\ last'.flow = f)
        => /\ registry' = registry
           /\ flows'[f].discovered_trackers = EmptyDict
           /\ flows'[f].selected_tracker = None
           /\ IF last'.op = "async_step_user" /\ last'.input = None
              THEN /\ flows'[f].pc = "user"
                   /\ flows'[f].result.type = "form"
                   /\ flows'[f].result.step_id = "user"
              ELSE /\ flows'[f].pc = "done"
                   /\ flows'[f].result =
                          [type |-> "create_entry",
                           title |-> <<"Import Statistics">>,
                           data |-> EmptyDict]
    ]_vars

\* C14 witness: with TrackerA in the registry one flow answered the form of
\* the user step and the other was started by an import, and both ended with
\* the "Import Statistics" entry
C14_Witness ==
    /\ last.op = "async_step_user"
    /\ last.input = EmptyDict
    /\ \A f \in Flows :
           flows[f].result = [type |-> "create_entry",
                              title |-> <<"Import Statistics">>,
                              data |-> EmptyDict]
    /\ DOMAIN registry = {TrackerA}

\* the operation recorded in l is a call by flow f that takes a snapshot of
\* the registry: async_step_discovery, or async_step_discovery_select
\* without input
TookSnapshot(l, f) ==
    /\ l.op \in {"async_step_discovery", "async_step_discovery_select"}
    /\ l.flow = f
    /\ (l.op = "async_step_discovery" \/ l.input = None)

C17_AcceptTitleFitnessTracker ==
    [][\A f \in Flows : ConfirmStepOf(f, TRUE) =>
        /\ flows'[f].result.type = "create_entry"
        /\ flows'[f].result.title =
               <<"Fitness Tracker: ", flows[f].selected_tracker.vendor>>
    ]_vars

\* C18: right after an announcement of X that passed validation the state
\* "import_statistics.<X>_discovered" exists and its value is the string
\* "True".
C18_DiscoveredStateTrue ==
    Announced =>
        LET key == <<"import_statistics", ".">> \o last.data.component_name
                       \o <<"_discovered">>
        IN  /\ key \in DOMAIN states
            /\ states[key].state = "True"

\* C19: a flow ends with a created entry for X on an accepting input in the
\* confirm step only if X is a key of the registry when that input is
\* processed.
C19_AcceptRevalidates ==
    [][\A f \in Flows : \A x \in {TrackerA, TrackerB} :
        (ConfirmStepOf(f, TRUE) /\ CreatedFor(f, x)')
        => x \in DOMAIN registry
    ]_vars

\* C20: when a flow submits, on a selection form, a choice X that the form's
\* snapshot held, and X is no longer a key of the registry while the
\* registry is not empty, the choice is looked up in the registry: the flow
\* ends aborted with reason tracker_not_found and does not reach the confirm
\* step.
C20_StaleChoiceAborts ==
    [][\A f \in Flows : \A x \in {TrackerA, TrackerB} :
        (/\ flows[f].pc \in {"discovery", "discovery_select"}
         /\ SelectStepOf(f, x)
         /\ x \in DOMAIN flows[f].discovered_trackers
         /\ x \notin DOMAIN registry
         /\ DOMAIN registry # {})
        => /\ flows'[f].result = Aborted("tracker_not_found")
           /\ flows'[f].pc = "done"
           /\ flows'[f].selected_tracker = None
           /\ registry' = registry
    ]_vars

\* C20 witness: a flow was shown the form of step "discovery_select" with
\* TrackerA and TrackerB; the other flow confirmed TrackerA; the first flow
\* then chose TrackerA and ended with tracker_not_found
C20_Witness ==
    /\ last.op = "async_step_discovery_select"
    /\ last.input = [component_name |-> TrackerA]
    /\ DOMAIN flows[last.flow].discovered_trackers = {TrackerA, TrackerB}
    /\ DOMAIN registry = {TrackerB}
    /\ flows[last.flow].result = Aborted("tracker_not_found")
    /\ \E g \in Flows \ {last.flow} : CreatedFor(g, TrackerA)

\* the operations of the config flow
WizardOps ==
    {"async_step_user", "async_step_import", "async_step_discovery",
     "async_step_discovery_select", "async_step_confirm"}

\* C21: a step of a flow that returns a form or an abort leaves the registry
\* as it was; a step of a flow changes the registry only if it is an
\* accepting input in the confirm step, and then the registry afterwards is
\* the registry before without the key of the selected tracker, every other
\* entry as it was.
C21_WizardFrame ==
    [][\A f \in Flows :
        (last'.op \in WizardOps /\ last'.flow = f)
        => /\ flows'[f].result.type \in {"form", "abort"}
              => registry' = registry
           /\ registry' # registry
              => /\ ConfirmStepOf(f, TRUE)
                 /\ DOMAIN registry' =
                        DOMAIN registry
                            \ {flows[f].selected_tracker.component_name}
                 /\ \A k \in DOMAIN registry' : registry'[k] = registry[k]
    ]_vars

\* C22: once a flow has ended with an abort, whatever the reason, no later
\* step is a step of that flow and the flow stays as the abort left it: it
\* shows no form, creates no entry and changes nothing in the registry; a
\* flow aborted with already_configured never reaches the confirm step.
C22_AbortTerminal ==
    [][\A f \in Flows :
        (flows[f].result # None /\ flows[f].result.type = "abort")
        => /\ ~(last'.op \in WizardOps /\ last'.flow = f)
           /\ flows'[f] = flows[f]
    ]_vars

\* C22 witness: TrackerA was confirmed by one flow and announced again; the
\* other flow selected it and was aborted with already_configured; a later
\* service call found that flow still aborted and TrackerA still stored
C22_Witness ==
    /\ last.op = "discover_fitness_component"
    /\ last.error # None
    /\ TrackerA \in DOMAIN registry
    /\ \E f \in Flows :
           /\ flows[f].result = Aborted("already_configured")
           /\ flows[f].pc = "done"
           /\ \E g \in Flows \ {f} : CreatedFor(g, TrackerA)

\* what is wrong with one entity, in the order name key, friendly_name key,
\* name pattern; "" when nothing is
EntityViolation(entity) ==
    IF "name" \notin DOMAIN entity THEN "entity name is required"
    ELSE IF "friendly_name" \notin DOMAIN entity
    THEN "entity friendly_name is required"
    ELSE IF ~MatchesIdentifierPattern(entity.name) THEN "Invalid entity name"
    ELSE ""

\* the call reached the entity checks: it passed the four checks before
ReachesEntities(d) == ReachesNameFormat(d) /\ ~FailsNameFormat(d)

\* C23: a call that reaches the entity checks reports the first violation
\* (name key missing, then friendly_name key missing, then name not matching
\* ^[A-Za-z0-9_]+$) of the entity of lowest index that has one, and reports
\* no error when no entity has one.
C23_EntityOrder ==
    (last.op = "discover_fitness_component" /\ ReachesEntities(last.data))
    => LET entities == last.data.entities
           bad == {i \in 1..Len(entities) : EntityViolation(entities[i]) # ""}
       IN  IF bad = {} THEN last.error = None
           ELSE LET first == CHOOSE i \in bad : \A j \in bad : i <= j
                IN  ReportedMsg(last.error) = EntityViolation(entities[first])

\* d has a non-empty string under k
HasNonEmpty(d, k) == k \in DOMAIN d /\ d[k] # ""

\* C24: the description of the confirm form names the device as the vendor
\* of the selected tracker, followed by " <model>" exactly when device_info
\* has a non-empty model, followed by " by <manufacturer>" exactly when
\* device_info has a non-empty manufacturer other than the vendor; it gives
\* the length of the entity list as the number of entities and ends with
\* one bullet line per entity, in order, carrying its friendly name.
C24_ConfirmPrompt ==
    \A f \in Flows : flows[f].pc = "confirm" =>
        LET t     == flows[f].selected_tracker
            di    == t.device_info
            label == <<t.vendor>>
                     \o (IF HasNonEmpty(di, "model")
                         THEN <<" ", di.model>> ELSE <<>>)
                     \o (IF HasNonEmpty(di, "manufacturer")
                            /\ di.manufacturer # t.vendor
                         THEN <<" by ", di.manufacturer>> ELSE <<>>)
            n     == Len(t.entities)
            lines == [p \in 1..(3 * n - 1) |->
                         IF p % 3 = 1 THEN Bullet
                         ELSE IF p % 3 = 2
                         THEN t.entities[(p + 1) \div 3].friendly_name
                         ELSE "\n"]
        IN  /\ flows[f].result.type = "form"
            /\ flows[f].result.step_id = "confirm"
            /\ flows[f].result.description_placeholders.description =
                   <<"Add ">> \o label
                   \o <<"?\n\n", "Component name: ">> \o t.component_name
                   \o <<"\n\n", "This will create ", Digit(n)>>
                   \o <<" entities:\n\n">> \o lines

\* C24 witness: the form is shown for a tracker of vendor "Vendor 1" whose
\* device_info has the model "T1" and the manufacturer "Corp", with two
\* entities
C24_Witness ==
    \E f \in Flows :
        /\ flows[f].pc = "confirm"
        /\ flows[f].result.description_placeholders.description =
               <<"Add ", "Vendor 1", " ", "T1", " by ", "Corp", "?\n\n",
                 "Component name: ", "a", "\n\n",
                 "This will create ", "2", " entities:\n\n",
                 Bullet, "Heart Rate", "\n", Bullet, "Steps">>

\* C25: setting up the entry a flow created hands over one sensor per
\* entity of the entry's data, in the order of the entities; the unique id
\* of the i-th sensor is the entry's component_name, an underscore and the
\* name of the i-th entity, and each sensor has no value and is unavailable.
C25_SensorsPerEntity ==
    last.op = "async_setup_entry" =>
        LET data     == flows[last.flow].result.data
            entities == IF "entities" \in DOMAIN data THEN data.entities
                        ELSE <<>>
        IN  /\ Len(last.entities) = Len(entities)
            /\ \A i \in 1..Len(entities) :
                   /\ last.entities[i].unique_id =
                          data.component_name \o <<"_">> \o entities[i].name
                   /\ last.entities[i].native_value = None
                   /\ last.entities[i].available = FALSE

\* C25 witness: the entry of TrackerA with the entities HeartRate and Steps
\* was set up with the sensors "a_a_" and "a_a", in that order
C25_Witness ==
    /\ last.op = "async_setup_entry"
    /\ CreatedFor(last.flow, TrackerA)
    /\ Len(last.entities) = 2
    /\ last.entities[1].unique_id = <<"a", "_", "a", "_">>
    /\ last.entities[2].unique_id = <<"a", "_", "a">>

\* the four fields of a created entry's data, taken from a tracker
PayloadOf(tracker) ==
    [component_name |-> tracker.component_name,
     vendor         |-> tracker.vendor,
     device_info    |-> tracker.device_info,
     entities       |-> tracker.entities]

\* C26: when an accepting input in the confirm step ends a flow with a
\* created entry for X, the data of the entry is the component_name, vendor,
\* device_info and entities stored under X in the registry at that moment,
\* also when X was announced again after the flow selected it.
C26_PayloadIsLiveEntry ==
    [][\A f \in Flows : \A x \in {TrackerA, TrackerB} :
        (ConfirmStepOf(f, TRUE) /\ CreatedFor(f, x)' /\ x \in DOMAIN registry)
        => flows'[f].result.data = PayloadOf(registry[x])
    ]_vars

\* C26 as amended: the data of the created entry is that of the tracker as
\* the flow's selection step found it in the registry; announcements made in
\* between do not change what the flow holds, so after an announcement of X
\* between selection and acceptance the data is the older description, not
\* the one the registry holds when the input is processed.
C26_PayloadIsSelectedEntry ==
    [][\A f \in Flows :
        /\ \A x \in {TrackerA, TrackerB} :
               (SelectStepOf(f, x) /\ flows'[f].pc = "confirm")
               => /\ x \in DOMAIN registry
                  /\ flows'[f].selected_tracker = registry[x]
        /\ (flows[f].pc = "confirm" /\ flows'[f].pc = "confirm")
           => flows'[f].selected_tracker = flows[f].selected_tracker
        /\ ConfirmStepOf(f, TRUE)
           => flows'[f].result.data = PayloadOf(flows[f].selected_tracker)
    ]_vars

\* C26 witness: a flow selected TrackerA in its first description, TrackerA
\* was announced again in its second, and the flow's acceptance created the
\* entry with the first
C26_Witness ==
    /\ last.op = "async_step_confirm"
    /\ last.input.add_device = TRUE
    /\ CreatedFor(last.flow, TrackerA)
    /\ flows[last.flow].result.data.vendor = "Vendor 1"
    /\ states[StateEntityId(TrackerA)].attributes.vendor = "Vendor 2"
    /\ TrackerA \notin DOMAIN registry

\* C27: after every step, each key X of the registry has the state
\* "import_statistics.<X>_discovered", whose vendor, entity_count and
\* discovered_at are those of the entry stored under X; no step deletes a
\* state, so the state of a tracker that was confirmed and removed from the
\* registry is still there with the value "discovered".
C27_StatusMatchesRegistry ==
    [][/\ \A x \in DOMAIN registry' :
              LET key == <<"import_statistics", ".">> \o x \o <<"_discovered">>
              IN  /\ key \in DOMAIN states'
                  /\ states'[key].attributes.vendor = registry'[x].vendor
                  /\ states'[key].attributes.entity_count =
                         Len(registry'[x].entities)
                  /\ states'[key].attributes.discovered_at =
                         registry'[x].discovered_at
       /\ DOMAIN states \subseteq DOMAIN states'
       /\ \A key \in DOMAIN states' : states'[key].state = "discovered"
    ]_vars

\* C27 witness: TrackerA was announced twice, then accepted by a flow; it is
\* gone from the registry and its state still tells the second announcement
C27_Witness ==
    /\ last.op = "async_step_confirm"
    /\ last.input.add_device = TRUE
    /\ CreatedFor(last.flow, TrackerA)
    /\ TrackerA \notin DOMAIN registry
    /\ StateEntityId(TrackerA) \in DOMAIN states
    /\ states[StateEntityId(TrackerA)].state = "discovered"
    /\ states[StateEntityId(TrackerA)].attributes.discovered_at = 2
    /\ flows[last.flow].result.data.vendor = "Vendor 2"

\* C28: a flow that is in the confirm step has a selected tracker; a flow
\* enters the confirm step only by a selection step of its own (never by the
\* user or import step) that named a key of the registry, and its selected
\* tracker is then the entry found under that key.
C28_ConfirmHasSelection ==
    [][\A f \in Flows :
        /\ flows'[f].pc = "confirm" => flows'[f].selected_tracker # None
        /\ (flows[f].pc # "confirm" /\ flows'[f].pc = "confirm")
           => \E x \in {TrackerA, TrackerB, TrackerC} :
                  /\ SelectStepOf(f, x)
                  /\ x \in DOMAIN registry
                  /\ flows'[f].selected_tracker = registry[x]
    ]_vars

\* C28 witness: a flow chose TrackerB on the form of step "discovery" and is
\* in the confirm step with the entry of TrackerB selected
C28_Witness ==
    /\ last.op = "async_step_discovery"
    /\ last.input = [component_name |-> TrackerB]
    /\ flows[last.flow].pc = "confirm"
    /\ DOMAIN registry = {TrackerA, TrackerB}
    /\ flows[last.flow].selected_tracker = registry[TrackerB]
    /\ \E g \in Flows \ {last.flow} : flows[g].pc = "user"

\* C29: a step called with the input of a form never shows that form again
\* nor a form of an earlier step: the input of a selection form leads to the
\* confirm form or ends the flow, the input of the confirm form ends the
\* flow; so a flow of the discovery path ends after at most two inputs.
C29_ForwardProgress ==
    [][\A f \in Flows :
        (last'.op \in WizardOps /\ last'.flow = f)
        => /\ flows[f].pc \in {"discovery", "discovery_select"}
              => flows'[f].pc \in {"confirm", "done"}
           /\ flows[f].pc = "confirm" => flows'[f].pc = "done"
           /\ flows[f].pc = "init"
              => flows'[f].pc \in {"user", "discovery", "discovery_select",
                                   "confirm", "done"}
    ]_vars

\* C29 witness: a flow was shown the form of step "discovery_select" with
\* TrackerA in its first description, chose TrackerA after it was announced
\* again, was shown the confirm form and its answer ended it: two inputs
C29_Witness ==
    /\ last.op = "async_step_confirm"
    /\ flows[last.flow].pc = "done"
    /\ flows[last.flow].result.type = "create_entry"
    /\ TrackerA \in DOMAIN flows[last.flow].discovered_trackers
    /\ flows[last.flow].discovered_trackers[TrackerA].vendor = "Vendor 1"
    /\ flows[last.flow].selected_tracker.component_name = TrackerA
    /\ flows[last.flow].selected_tracker.vendor = "Vendor 2"

\* C30: a store of X and a remove of X leave the result of
\* get_discovered_tracker(Y) as it was for every Y other than X;
\* get_discovered_tracker and get_all_discovered_trackers leave the registry
\* as it was.
C30_OtherKeysUntouched ==
    [][/\ last'.op = "store_discovered_tracker"
          => \A y \in RegistryKeys \ {last'.data.component_name} :
                 get_discovered_tracker(registry', y) =
                     get_discovered_tracker(registry, y)
       /\ last'.op = "remove_discovered_tracker"
          => \A y \in RegistryKeys \ {last'.component_name} :
                 get_discovered_tracker(registry', y) =
                     get_discovered_tracker(registry, y)
       /\ last'.op \in {"get_discovered_tracker", "get_all_discovered_trackers"}
          => registry' = registry
    ]_vars

\* C30 witness: with TrackerA and TrackerB stored, TrackerA was removed and
\* TrackerB is still stored as it was announced
C30_Witness ==
    /\ last.op = "remove_discovered_tracker"
    /\ last.component_name = TrackerA
    /\ last.ret = TRUE
    /\ clock = 2
    /\ get_discovered_tracker(registry, TrackerB) # None
    /\ registry[TrackerB].vendor = "Vendor 1"

====
